---- MODULE Spec2Model ----
(***************************************************************************)
(* Job orchestration core of the DotsOCR API service.                      *)
(*                                                                         *)
(*   server/tasks.py   TaskManager: create_task, _update, _run, get, list  *)
(*   server/storage.py FileStorage: save_upload, list_files, get_file_*    *)
(*   api_service.py    the request handlers that call the TaskManager      *)
(*                                                                         *)
(* One request thread runs the handlers one after the other; every job     *)
(* runs in a thread of its own (threading.Thread, tasks.py:67) and may be  *)
(* scheduled between any two steps of a handler.                           *)
(***************************************************************************)
EXTENDS Integers, Sequences, FiniteSets, TLC

\* ------------------------------------------------------------------------
\* Bounds of the model
\* ------------------------------------------------------------------------

\* number of task identifiers uuid4 can hand out, hence of create_task calls
MaxTasks == 2

TaskIds == 1..MaxTasks

\* number of file identifiers uuid4 can hand out, hence of save_upload calls
MaxUploads == 2

FileIds == 1..MaxUploads

\* ------------------------------------------------------------------------
\* Values
\* ------------------------------------------------------------------------

PENDING == "pending"
RUNNING == "running"
SUCCESS == "success"
FAILED  == "failed"

TaskStatus == {PENDING, RUNNING, SUCCESS, FAILED}

\* Python's None in a field that otherwise holds a string
None == "<None>"

\* the empty dict {} of the artifacts field
EmptyMap == {}

\* an artifact mapping as a job body returns it: a set of <<name, path>>
Artifacts1 == {<<"result_jsonl", "out.jsonl">>}

\* progress written together with RUNNING
RunningProgress == 5

\* progress written together with SUCCESS and FAILED
FinalProgress == 100

\* default of result.get("error", ...)
UnknownError == "unknown error"

\* str(e) of the AttributeError raised by result.get on a result without get
AttributeErrorText == "'NoneType' object has no attribute 'get'"

\* owner of the lock when nobody holds it, and the request thread
NoHolder == 0
RequestThread == -1

\* task_dir = self.base_dir / task_id
TaskDir(task_id) == <<"results", task_id>>

\* ------------------------------------------------------------------------
\* What a job body can do when it ends
\*   kind "dict"    it returns a dict; ok is the truthiness of result.get("ok"),
\*                  keys the optional keys present in it
\*   kind "nodict"  it returns an object that has no get (None)
\*   kind "raise"   it raises an Exception whose str() is error
\*   kind "exit"    it raises a BaseException that is not an Exception
\*                  (SystemExit, KeyboardInterrupt, asyncio.CancelledError)
\* ------------------------------------------------------------------------

NoResult == [kind |-> "none", ok |-> FALSE, keys |-> {}, artifacts |-> EmptyMap, error |-> None]

\* a dict result with truthiness o of "ok" and the optional keys k
DictResult(o, k) ==
    [kind |-> "dict", ok |-> o, keys |-> k,
     artifacts |-> (IF "artifacts" \in k THEN Artifacts1 ELSE EmptyMap),
     error |-> (IF "error" \in k THEN "boom" ELSE None)]

DictResults ==
    { DictResult(TRUE, k) : k \in {{}, {"artifacts"}, {"artifacts", "error"}} }
      \cup { DictResult(FALSE, k) : k \in {{}, {"error"}, {"artifacts", "error"}} }

RaiseResults ==
    { [kind |-> "raise", ok |-> FALSE, keys |-> {}, artifacts |-> EmptyMap, error |-> m] :
         m \in {"boom", ""} }

OtherResults ==
    { [kind |-> k, ok |-> FALSE, keys |-> {}, artifacts |-> EmptyMap, error |-> None] :
         k \in {"nodict", "exit"} }

JobResults == DictResults \cup RaiseResults \cup OtherResults

\* ------------------------------------------------------------------------
\* State
\* ------------------------------------------------------------------------

VARIABLES
    tasks,      \* self._tasks: task id -> record
    taskOrder,  \* insertion order of self._tasks
    lock,       \* self._lock: NoHolder or the thread inside `with self._lock`
    dirs,       \* the directories that exist under RESULTS_DIR
    pc,         \* position of each job thread in _run
    result,     \* what the job body of each thread ended with
    invoked,    \* how often each job body was called
    hPc,        \* position of the request thread in its handler
    hTask,      \* the task id the running handler works on
    view,       \* the fields get_task has read so far
    returned,   \* ids of the records create_task has returned
    listed,     \* what TaskManager.list returned to the running handler
    held        \* every value each record has held (history)

VARIABLES
    idToMeta,   \* self._id_to_meta: file id -> meta
    fileOrder,  \* insertion order of self._id_to_meta
    sdirs,      \* the directories that exist under STORAGE_DIR
    disk,       \* the files under STORAGE_DIR and the archives under
                \* RESULTS_DIR: a set of <<path, content>>
    uPc,        \* position of each caller of save_upload
    uArg,       \* file_id, filename and content of each caller
    saved,      \* the metas save_upload has returned, in that order (history)
    hFile       \* the file id the running handler looked up

storeVars == <<idToMeta, fileOrder, sdirs, disk, uPc, uArg, saved>>

vars == <<tasks, taskOrder, lock, dirs, pc, result, invoked,
          hPc, hTask, view, returned, listed, hFile, held, storeVars>>

jobVars == <<pc, result, invoked>>
reqVars == <<hPc, hTask, view, returned, listed, hFile>>

\* the locals of a caller that is not inside save_upload
NoArg == [id |-> 0, filename |-> <<>>, content |-> <<>>]

NoView == [found |-> FALSE, id |-> 0, status |-> "?", progress |-> -1, error |-> "?"]

\* ------------------------------------------------------------------------
\* TaskManager
\* ------------------------------------------------------------------------

\* the record create_task builds (tasks.py:46-53)
NewRecord(task_id) ==
    [id |-> task_id, status |-> PENDING, progress |-> 0,
     dir |-> TaskDir(task_id), error |-> None, artifacts |-> EmptyMap]

\* dict.update(kwargs): the keys of kwargs replace those of the record
DictUpdate(record, kwargs) ==
    [f \in DOMAIN record |-> IF f \in DOMAIN kwargs THEN kwargs[f] ELSE record[f]]

\* variant: the kwargs are written into every record of the map
Update_Broadcast(tk, task_id, kwargs) ==
    [x \in DOMAIN tk |-> DictUpdate(tk[x], kwargs)]

\* body of _update inside the lock (tasks.py:35-36)
Update(tk, task_id, kwargs) ==
    IF task_id \in DOMAIN tk
    THEN [tk EXCEPT ![task_id] = DictUpdate(tk[task_id], kwargs)]
    ELSE tk

\* variant: the first _update passes the progress only
RunningKwargs_NoStatus == [progress |-> RunningProgress]

\* kwargs of the first _update of _run (tasks.py:58)
RunningKwargs == [status |-> RUNNING, progress |-> RunningProgress]

\* what `except Exception` (tasks.py:64-65) passes for what was raised
RaisedKwargs(res) ==
    IF res.kind = "nodict"
    THEN [status |-> FAILED, progress |-> FinalProgress, error |-> AttributeErrorText]
    ELSE [status |-> FAILED, progress |-> FinalProgress, error |-> res.error]

\* variant: the success branch does not pass the artifacts
ResultKwargs_NoArtifacts(res) ==
    IF res.kind = "dict"
    THEN IF res.ok
         THEN [status |-> SUCCESS, progress |-> FinalProgress]
         ELSE [status |-> FAILED, progress |-> FinalProgress,
               error |-> (IF "error" \in res.keys THEN res.error ELSE UnknownError)]
    ELSE RaisedKwargs(res)

\* variant: the failure branch always passes the default error
ResultKwargs_DefaultError(res) ==
    IF res.kind = "dict"
    THEN IF res.ok
         THEN [status |-> SUCCESS, progress |-> FinalProgress,
               artifacts |-> (IF "artifacts" \in res.keys THEN res.artifacts ELSE EmptyMap)]
         ELSE [status |-> FAILED, progress |-> FinalProgress, error |-> UnknownError]
    ELSE RaisedKwargs(res)

\* variant: both branches pass the error and the artifacts of the result
ResultKwargs_BothFields(res) ==
    IF res.kind = "dict"
    THEN [status |-> (IF res.ok THEN SUCCESS ELSE FAILED), progress |-> FinalProgress,
          artifacts |-> (IF "artifacts" \in res.keys THEN res.artifacts ELSE EmptyMap),
          error |-> (IF "error" \in res.keys THEN res.error ELSE UnknownError)]
    ELSE RaisedKwargs(res)

\* variant: a failure puts the progress back to 0
ResultKwargs_ResetProgress(res) ==
    IF res.kind = "dict" /\ res.ok
    THEN [status |-> SUCCESS, progress |-> FinalProgress,
          artifacts |-> (IF "artifacts" \in res.keys THEN res.artifacts ELSE EmptyMap)]
    ELSE [status |-> FAILED, progress |-> 0, error |-> UnknownError]

\* kwargs of the last _update of _run (tasks.py:60-65)
ResultKwargs(res) ==
    IF res.kind = "dict"
    THEN IF res.ok
         THEN [status |-> SUCCESS, progress |-> FinalProgress,
               artifacts |-> (IF "artifacts" \in res.keys THEN res.artifacts ELSE EmptyMap)]
         ELSE [status |-> FAILED, progress |-> FinalProgress,
               error |-> (IF "error" \in res.keys THEN res.error ELSE UnknownError)]
    ELSE RaisedKwargs(res)

\* variant: a job body that raised is called again
PcAfterBody_Retry(res) ==
    IF res.kind = "exit" THEN "dead" ELSE IF res.kind = "raise" THEN "call" ELSE "fin_acq"

\* where _run continues when the job body has ended: `except Exception`
\* (tasks.py:64) does not catch a BaseException, which ends the thread
PcAfterBody(res) ==
    IF res.kind = "exit" THEN "dead" ELSE "fin_acq"

\* variant: the record is not stored
Insert_Lost(tk, task_id, record) == tk

\* self._tasks[task_id] = record (tasks.py:54)
Insert(tk, task_id, record) ==
    IF task_id \in DOMAIN tk
    THEN [tk EXCEPT ![task_id] = record]
    ELSE tk @@ (task_id :> record)

\* A reference to a record of self._tasks is modelled by the key of the
\* record; Absent is the None that dict.get returns for a missing key.
Absent == 0

\* TaskManager.get (tasks.py:70-71): the live record, or None
Get(task_id) ==
    IF task_id \in DOMAIN tasks THEN task_id ELSE Absent

\* TaskManager.list (tasks.py:73-74): the live records in insertion order
List == taskOrder

Init ==
    /\ tasks = <<>>
    /\ taskOrder = <<>>
    /\ lock = NoHolder
    /\ dirs = {}
    /\ pc = [t \in TaskIds |-> "none"]
    /\ result = [t \in TaskIds |-> NoResult]
    /\ invoked = [t \in TaskIds |-> 0]
    /\ hPc = "idle"
    /\ hTask = 0
    /\ view = NoView
    /\ returned = {}
    /\ listed = <<>>
    /\ held = [t \in TaskIds |-> {}]
    /\ idToMeta = <<>>
    /\ fileOrder = <<>>
    /\ sdirs = {}
    /\ disk = {}
    /\ uPc = [c \in FileIds |-> "idle"]
    /\ uArg = [c \in FileIds |-> NoArg]
    /\ saved = <<>>
    /\ hFile = 0

\* ------------------------------------------------------------------------
\* Request thread: create_task (tasks.py:38-68), called by create_parse_task
\* ------------------------------------------------------------------------

\* uuid.uuid4().hex (tasks.py:43): an identifier that was never handed out.
\* Identifiers are opaque, so the least unused one stands for any of them.
FreshIds ==
    LET unused == {i \in TaskIds : TaskDir(i) \notin dirs /\ i \notin DOMAIN tasks}
    IN  {i \in unused : \A j \in unused : i <= j}

\* variant: the directory is left for the job body to create
CreateTaskBegin_NoMkdir ==
    /\ hPc = "idle"
    /\ \E task_id \in FreshIds : hTask' = task_id
    /\ hPc' = "ct_insert"
    /\ UNCHANGED <<tasks, taskOrder, lock, dirs, jobVars, view, returned, listed, held, hFile, storeVars>>

\* tasks.py:43-53: a fresh uuid, its directory, the local record
CreateTaskBegin ==
    /\ hPc = "idle"
    /\ \E task_id \in FreshIds :
         /\ hTask' = task_id
         /\ dirs' = dirs \cup {TaskDir(task_id)}
    /\ hPc' = "ct_insert"
    /\ UNCHANGED <<tasks, taskOrder, lock, jobVars, view, returned, listed, held, hFile, storeVars>>

\* tasks.py:54: the record enters the map; the lock is not taken
CreateTaskInsert ==
    /\ hPc = "ct_insert"
    /\ tasks' = Insert(tasks, hTask, NewRecord(hTask))
    /\ taskOrder' = IF hTask \in DOMAIN tasks THEN taskOrder ELSE Append(taskOrder, hTask)
    /\ held' = [held EXCEPT ![hTask] = @ \cup {NewRecord(hTask)}]
    /\ hPc' = "ct_start"
    /\ UNCHANGED <<lock, dirs, jobVars, hTask, view, returned, listed, hFile, storeVars>>

\* tasks.py:67-68: the thread is started and the record returned
CreateTaskStart ==
    /\ hPc = "ct_start"
    /\ pc' = [pc EXCEPT ![hTask] = "run_acq"]
    /\ returned' = returned \cup {hTask}
    /\ hPc' = "idle"
    /\ hTask' = 0
    /\ hFile' = 0
    /\ UNCHANGED <<tasks, taskOrder, lock, dirs, result, invoked, view, listed, held, storeVars>>

\* ------------------------------------------------------------------------
\* Job thread: _run (tasks.py:56-65) and the _update calls it makes
\* ------------------------------------------------------------------------

\* tasks.py:58 -> 34: enter `with self._lock`
RunAcquire(t) ==
    /\ pc[t] = "run_acq"
    /\ lock = NoHolder
    /\ lock' = t
    /\ pc' = [pc EXCEPT ![t] = "run_wr"]
    /\ UNCHANGED <<tasks, taskOrder, dirs, result, invoked, reqVars, held, storeVars>>

\* tasks.py:35-36 with status=RUNNING, progress=5
RunWrite(t) ==
    /\ pc[t] = "run_wr"
    /\ tasks' = Update(tasks, t, RunningKwargs)
    /\ held' = IF t \in DOMAIN tasks THEN [held EXCEPT ![t] = @ \cup {tasks'[t]}] ELSE held
    /\ pc' = [pc EXCEPT ![t] = "run_rel"]
    /\ UNCHANGED <<taskOrder, lock, dirs, result, invoked, reqVars, storeVars>>

\* variant: the job body is called inside `with self._lock`
RunRelease_KeepLock(t) ==
    /\ pc[t] = "run_rel"
    /\ pc' = [pc EXCEPT ![t] = "call"]
    /\ UNCHANGED <<tasks, taskOrder, lock, dirs, result, invoked, reqVars, held, storeVars>>

\* leave `with self._lock`
RunRelease(t) ==
    /\ pc[t] = "run_rel"
    /\ lock' = NoHolder
    /\ pc' = [pc EXCEPT ![t] = "call"]
    /\ UNCHANGED <<tasks, taskOrder, dirs, result, invoked, reqVars, held, storeVars>>

\* tasks.py:59: the job body is called with the task directory
InvokeBody(t) ==
    /\ pc[t] = "call"
    /\ invoked' = [invoked EXCEPT ![t] = @ + 1]
    /\ pc' = [pc EXCEPT ![t] = "body"]
    /\ UNCHANGED <<tasks, taskOrder, lock, dirs, result, reqVars, held, storeVars>>

\* tasks.py:59-60, 64: the job body returns or raises
BodyEnds(t) ==
    /\ pc[t] = "body"
    /\ \E res \in JobResults :
         /\ result' = [result EXCEPT ![t] = res]
         /\ pc' = [pc EXCEPT ![t] = PcAfterBody(res)]
    /\ UNCHANGED <<tasks, taskOrder, lock, dirs, invoked, reqVars, held, storeVars>>

\* tasks.py:61, 63 or 65 -> 34
FinAcquire(t) ==
    /\ pc[t] = "fin_acq"
    /\ lock = NoHolder
    /\ lock' = t
    /\ pc' = [pc EXCEPT ![t] = "fin_wr"]
    /\ UNCHANGED <<tasks, taskOrder, dirs, result, invoked, reqVars, held, storeVars>>

\* tasks.py:35-36 with the kwargs of line 61, 63 or 65
FinWrite(t) ==
    /\ pc[t] = "fin_wr"
    /\ tasks' = Update(tasks, t, ResultKwargs(result[t]))
    /\ held' = IF t \in DOMAIN tasks THEN [held EXCEPT ![t] = @ \cup {tasks'[t]}] ELSE held
    /\ pc' = [pc EXCEPT ![t] = "fin_rel"]
    /\ UNCHANGED <<taskOrder, lock, dirs, result, invoked, reqVars, storeVars>>

\* leave `with self._lock`; _run returns and its locals are gone
FinRelease(t) ==
    /\ pc[t] = "fin_rel"
    /\ lock' = NoHolder
    /\ result' = [result EXCEPT ![t] = NoResult]
    /\ pc' = [pc EXCEPT ![t] = "done"]
    /\ UNCHANGED <<tasks, taskOrder, dirs, invoked, reqVars, held, storeVars>>

JobStep(t) ==
    \/ RunAcquire(t)
    \/ RunWrite(t)
    \/ RunRelease(t)
    \/ InvokeBody(t)
    \/ BodyEnds(t)
    \/ FinAcquire(t)
    \/ FinWrite(t)
    \/ FinRelease(t)

\* ------------------------------------------------------------------------
\* Request thread: get_task (api_service.py:345-350) and TaskManager.list
\* ------------------------------------------------------------------------

\* api_service.py:347-349: task = task_manager.get(task_id); 404 when absent
GetTaskBegin ==
    /\ hPc = "idle"
    /\ \E task_id \in TaskIds :
         /\ hTask' = task_id
         /\ IF Get(task_id) = Absent
            THEN /\ view' = [NoView EXCEPT !.id = task_id]
                 /\ hPc' = "gt_done"
            ELSE /\ view' = [NoView EXCEPT !.found = TRUE, !.id = tasks[Get(task_id)].id]
                 /\ hPc' = "gt_status"
    /\ UNCHANGED <<tasks, taskOrder, lock, dirs, jobVars, returned, listed, held, hFile, storeVars>>

\* api_service.py:350: task["status"]
GetTaskReadStatus ==
    /\ hPc = "gt_status"
    /\ view' = [view EXCEPT !.status = tasks[hTask].status]
    /\ hPc' = "gt_progress"
    /\ UNCHANGED <<tasks, taskOrder, lock, dirs, jobVars, hTask, returned, listed, held, hFile, storeVars>>

\* api_service.py:350: task.get("progress", 0)
GetTaskReadProgress ==
    /\ hPc = "gt_progress"
    /\ view' = [view EXCEPT !.progress = tasks[hTask].progress]
    /\ hPc' = "gt_error"
    /\ UNCHANGED <<tasks, taskOrder, lock, dirs, jobVars, hTask, returned, listed, held, hFile, storeVars>>

\* api_service.py:350: task.get("error")
GetTaskReadError ==
    /\ hPc = "gt_error"
    /\ view' = [view EXCEPT !.error = tasks[hTask].error]
    /\ hPc' = "gt_done"
    /\ UNCHANGED <<tasks, taskOrder, lock, dirs, jobVars, hTask, returned, listed, held, hFile, storeVars>>

\* the TaskInfo, or the 404, is sent
GetTaskRespond ==
    /\ hPc = "gt_done"
    /\ view' = NoView
    /\ hTask' = 0
    /\ hPc' = "idle"
    /\ UNCHANGED <<tasks, taskOrder, lock, dirs, jobVars, returned, listed, held, hFile, storeVars>>

\* tasks.py:73-74, called by list_tasks (api_service.py:355)
ListTasksBegin ==
    /\ hPc = "idle"
    /\ listed' = List
    /\ hPc' = "ls_done"
    /\ UNCHANGED <<tasks, taskOrder, lock, dirs, jobVars, hTask, view, returned, held, hFile, storeVars>>

\* the list is sent
ListTasksRespond ==
    /\ hPc = "ls_done"
    /\ listed' = <<>>
    /\ hPc' = "idle"
    /\ UNCHANGED <<tasks, taskOrder, lock, dirs, jobVars, hTask, view, returned, held, hFile, storeVars>>

CreateTaskStep ==
    \/ CreateTaskBegin
    \/ CreateTaskInsert
    \/ CreateTaskStart

RequestStep ==
    \/ CreateTaskStep
    \/ GetTaskBegin
    \/ GetTaskReadStatus
    \/ GetTaskReadProgress
    \/ GetTaskReadError
    \/ GetTaskRespond
    \/ ListTasksBegin
    \/ ListTasksRespond

Next ==
    \/ RequestStep
    \/ \E t \in TaskIds : JobStep(t)

Spec == Init /\ [][Next]_vars

\* The manager and its job threads alone.  get_task and list take no lock
\* and write nothing a job thread reads, so they are left out here.
JobNext ==
    \/ CreateTaskStep
    \/ \E t \in TaskIds : JobStep(t)

\* The scheduler runs every job thread that can take a step, and a job
\* body that is running ends.
FairSpec ==
    /\ Init
    /\ [][JobNext]_vars
    /\ \A t \in TaskIds : WF_vars(JobStep(t))

\* ------------------------------------------------------------------------
\* _update (tasks.py:33-36) called for an id that is not in the map
\* ------------------------------------------------------------------------

\* an id that create_task never hands out
UnknownId == MaxTasks + 1

\* the keyword arguments _run passes to _update (tasks.py:58, 61, 63, 65)
UpdateKwargs == {RunningKwargs} \cup {ResultKwargs(res) : res \in JobResults \ OtherResults}

\* _update(task_id, **kwargs) as a whole, `with self._lock` included, for
\* a task_id that is not a key of self._tasks
UpdateUnknown ==
    /\ hPc = "idle"
    /\ lock = NoHolder
    /\ \E task_id \in (TaskIds \ DOMAIN tasks) \cup {UnknownId}, kwargs \in UpdateKwargs :
         /\ tasks' = Update(tasks, task_id, kwargs)
         /\ hTask' = task_id
    /\ hPc' = "up_done"
    /\ UNCHANGED <<taskOrder, lock, dirs, jobVars, view, returned, listed, held, hFile, storeVars>>

\* _update has returned
UpdateReturn ==
    /\ hPc = "up_done"
    /\ hPc' = "idle"
    /\ hTask' = 0
    /\ UNCHANGED <<tasks, taskOrder, lock, dirs, jobVars, view, returned, listed, held, hFile, storeVars>>

UpdateNext ==
    \/ CreateTaskStep
    \/ \E t \in TaskIds : JobStep(t)
    \/ UpdateUnknown
    \/ UpdateReturn

UpdateSpec == Init /\ [][UpdateNext]_vars

\* ------------------------------------------------------------------------
\* FileStorage (server/storage.py)
\* ------------------------------------------------------------------------

\* File names are sequences of characters, contents sequences of bytes.
Filenames == { <<"a", ".", "p">>, <<".", "p">> }

Contents == { <<>>, <<7>>, <<7, 8>> }

\* the largest element of a non-empty set of integers
Max(S) == CHOOSE x \in S : \A y \in S : y <= x

\* the final component of a path: what follows its last "/"
FinalName(filename) ==
    LET slashes == {i \in 1..Len(filename) : filename[i] = "/"}
    IN  IF slashes = {} THEN filename
        ELSE SubSeq(filename, Max(slashes) + 1, Len(filename))

\* Path(filename).suffix (storage.py:35): the final component from its last
\* dot on, unless that dot is its first or its last character
Suffix(filename) ==
    LET name == FinalName(filename)
        dots == {i \in 1..Len(name) : name[i] = "."}
    IN  IF dots = {} THEN <<>>
        ELSE IF 1 < Max(dots) /\ Max(dots) < Len(name)
             THEN SubSeq(name, Max(dots), Len(name))
             ELSE <<>>

\* target_dir = self.base_dir / file_id (storage.py:32)
StorageDir(file_id) == <<"storage", file_id>>

\* variant: the file is stored in the base directory under its own name
StoredPath_Flat(file_id, filename) == <<"storage", 0, filename>>

\* stored_path = target_dir / f"source{ext}" (storage.py:36)
StoredPath(file_id, filename) ==
    <<"storage", file_id, <<"s", "o", "u", "r", "c", "e">> \o Suffix(filename)>>

\* variant: the size recorded is the length of the name
NewMeta_NameSize(file_id, filename, content) ==
    [id |-> file_id, filename |-> filename,
     stored_path |-> StoredPath(file_id, filename),
     dir |-> StorageDir(file_id), size |-> Len(filename)]

\* the meta save_upload builds (storage.py:39-45)
NewMeta(file_id, filename, content) ==
    [id |-> file_id, filename |-> filename,
     stored_path |-> StoredPath(file_id, filename),
     dir |-> StorageDir(file_id), size |-> Len(content)]

\* path.exists()
Exists(path) == \E f \in disk : f[1] = path

\* the content of the file at path
ReadFile(path) == (CHOOSE f \in disk : f[1] = path)[2]

\* open(stored_path, "wb") and f.write(content) (storage.py:37-38)
WriteFile(d, path, content) ==
    {f \in d : f[1] # path} \cup {<<path, content>>}

\* the path that get_file_path answers when there is none
NoPath == <<>>

\* FileStorage.get_file_meta (storage.py:56-58): the meta, or None
GetFileMeta(file_id) ==
    IF file_id \in DOMAIN idToMeta THEN file_id ELSE Absent

\* variant: the path of the meta is answered without looking at the disk
GetFilePath_NoExists(file_id) ==
    IF GetFileMeta(file_id) = Absent
    THEN NoPath
    ELSE idToMeta[GetFileMeta(file_id)].stored_path

\* FileStorage.get_file_path (storage.py:60-66)
GetFilePath(file_id) ==
    LET meta == GetFileMeta(file_id)
    IN  IF meta = Absent
        THEN NoPath
        ELSE IF Exists(idToMeta[meta].stored_path)
             THEN idToMeta[meta].stored_path
             ELSE NoPath

\* variant: only the entries whose file is on disk are listed
ListFiles_OnDisk ==
    LET ids == SelectSeq(fileOrder, LAMBDA i : Exists(idToMeta[i].stored_path))
    IN  [i \in 1..Len(ids) |-> idToMeta[ids[i]]]

\* FileStorage.list_files (storage.py:49-54): the metas in insertion order
ListFiles == [i \in 1..Len(fileOrder) |-> idToMeta[fileOrder[i]]]

\* variant: the identifier is the number of entries of the index plus one
FreshFileIds_Counter == {Len(fileOrder) + 1} \cap FileIds

\* uuid.uuid4().hex (storage.py:30): an identifier that was never handed
\* out; as for the tasks, the least unused one stands for any of them
FreshFileIds ==
    LET unused == {i \in FileIds : StorageDir(i) \notin sdirs}
    IN  {i \in unused : \A j \in unused : i <= j}

\* storage.py:30-36: a fresh uuid, its directory, the path
SaveUploadBegin(c) ==
    /\ uPc[c] = "idle"
    /\ \E file_id \in FreshFileIds, filename \in Filenames, content \in Contents :
         /\ uArg' = [uArg EXCEPT ![c] = [id |-> file_id, filename |-> filename,
                                         content |-> content]]
         /\ sdirs' = sdirs \cup {StorageDir(file_id)}
    /\ uPc' = [uPc EXCEPT ![c] = "write"]
    /\ UNCHANGED <<tasks, taskOrder, lock, dirs, jobVars, reqVars, held,
                   idToMeta, fileOrder, disk, saved>>

\* storage.py:37-38: the content is written
SaveUploadWrite(c) ==
    /\ uPc[c] = "write"
    /\ disk' = WriteFile(disk, StoredPath(uArg[c].id, uArg[c].filename), uArg[c].content)
    /\ uPc' = [uPc EXCEPT ![c] = "insert"]
    /\ UNCHANGED <<tasks, taskOrder, lock, dirs, jobVars, reqVars, held,
                   idToMeta, fileOrder, sdirs, uArg, saved>>

\* storage.py:39-47: the meta enters the index and is returned
SaveUploadInsert(c) ==
    /\ uPc[c] = "insert"
    /\ LET meta == NewMeta(uArg[c].id, uArg[c].filename, uArg[c].content)
       IN  /\ idToMeta' = Insert(idToMeta, meta.id, meta)
           /\ fileOrder' = IF meta.id \in DOMAIN idToMeta THEN fileOrder
                           ELSE Append(fileOrder, meta.id)
           /\ saved' = Append(saved, meta)
    /\ uPc' = [uPc EXCEPT ![c] = "done"]
    /\ UNCHANGED <<tasks, taskOrder, lock, dirs, jobVars, reqVars, held,
                   sdirs, disk, uArg>>

\* a stored file is deleted from disk by something else than FileStorage,
\* the case path.exists() (storage.py:66) looks for
RemoveStoredFile ==
    /\ \E f \in disk : disk' = disk \ {f}
    /\ UNCHANGED <<tasks, taskOrder, lock, dirs, jobVars, reqVars, held,
                   idToMeta, fileOrder, sdirs, uPc, uArg, saved>>

SaveUploadStep(c) ==
    \/ SaveUploadBegin(c)
    \/ SaveUploadWrite(c)
    \/ SaveUploadInsert(c)

\* FileStorage on its own, with concurrent callers of save_upload
StoreNext ==
    \/ \E c \in FileIds : SaveUploadStep(c)
    \/ RemoveStoredFile

StoreSpec == Init /\ [][StoreNext]_vars

\* ------------------------------------------------------------------------
\* The service: the request thread stores files and creates parse tasks
\* ------------------------------------------------------------------------

\* the extensions upload_file accepts (api_service.py:236)
AllowedSuffixes == { <<".", "p">> }

\* validate_file_upload (api_service.py:115-150) and the test for empty
\* content (api_service.py:239)
ValidUpload(filename, content) ==
    /\ filename # <<>>
    /\ Suffix(filename) \in AllowedSuffixes
    /\ content # <<>>

\* upload_file (api_service.py:230-243) for an upload it accepts: the whole
\* of save_upload; no other thread works on the file store
UploadFile ==
    /\ hPc = "idle"
    /\ \E file_id \in FreshFileIds, filename \in Filenames, content \in Contents :
         /\ ValidUpload(filename, content)
         /\ LET meta == NewMeta(file_id, filename, content)
            IN  /\ sdirs' = sdirs \cup {StorageDir(file_id)}
                /\ disk' = WriteFile(disk, StoredPath(file_id, filename), content)
                /\ idToMeta' = Insert(idToMeta, file_id, meta)
                /\ fileOrder' = IF file_id \in DOMAIN idToMeta THEN fileOrder
                                ELSE Append(fileOrder, file_id)
                /\ saved' = Append(saved, meta)
    /\ UNCHANGED <<tasks, taskOrder, lock, dirs, jobVars, reqVars, held, uPc, uArg>>

\* create_parse_task (api_service.py:264-274, 341): 404 when the file id
\* has no path, else the beginning of create_task (tasks.py:43-53)
CreateParseTask ==
    /\ hPc = "idle"
    /\ \E file_id \in FileIds :
         /\ hFile' = file_id
         /\ IF GetFilePath(file_id) = NoPath
            THEN /\ hPc' = "cp_404"
                 /\ UNCHANGED <<hTask, dirs>>
            ELSE /\ \E task_id \in FreshIds :
                      /\ hTask' = task_id
                      /\ dirs' = dirs \cup {TaskDir(task_id)}
                 /\ hPc' = "ct_insert"
    /\ UNCHANGED <<tasks, taskOrder, lock, jobVars, view, returned, listed, held, storeVars>>

\* the 404 is sent
CreateParseTaskRefuse ==
    /\ hPc = "cp_404"
    /\ hPc' = "idle"
    /\ hFile' = 0
    /\ UNCHANGED <<tasks, taskOrder, lock, dirs, jobVars, hTask, view, returned, listed,
                   held, storeVars>>

\* what _job (api_service.py:276-339) can do when it ends: it returns
\* {"ok": True, "artifacts": ...}, or it catches an Exception and returns
\* {"ok": False, "error": str(e)} where str(e) may be empty, or a
\* BaseException that is not an Exception leaves it
ParseJobResults ==
    { DictResult(TRUE, {"artifacts"}) }
      \cup { [DictResult(FALSE, {"error"}) EXCEPT !.error = m] : m \in {"boom", ""} }
      \cup { r \in OtherResults : r.kind = "exit" }

\* tasks.py:59-60 with _job as the job body
ParseJobEnds(t) ==
    /\ pc[t] = "body"
    /\ \E res \in ParseJobResults :
         /\ result' = [result EXCEPT ![t] = res]
         /\ pc' = [pc EXCEPT ![t] = PcAfterBody(res)]
    /\ UNCHANGED <<tasks, taskOrder, lock, dirs, invoked, reqVars, held, storeVars>>

\* _run (tasks.py:56-65) of a parse task
ParseJobStep(t) ==
    \/ RunAcquire(t)
    \/ RunWrite(t)
    \/ RunRelease(t)
    \/ InvokeBody(t)
    \/ ParseJobEnds(t)
    \/ FinAcquire(t)
    \/ FinWrite(t)
    \/ FinRelease(t)

ServiceNext ==
    \/ UploadFile
    \/ RemoveStoredFile
    \/ CreateParseTask
    \/ CreateParseTaskRefuse
    \/ CreateTaskInsert
    \/ CreateTaskStart
    \/ \E t \in TaskIds : ParseJobStep(t)

ServiceSpec == Init /\ [][ServiceNext]_vars

\* ------------------------------------------------------------------------
\* download_task_result (api_service.py:359-371)
\* ------------------------------------------------------------------------

\* base_name + ".zip" with base_name = task_dir.with_suffix("")
\* (api_service.py:367-369): a file next to the task directory
ArchivePath(dir) == <<dir[1], <<dir[2], ".zip">>>>

\* what shutil.make_archive(root_dir=dir) writes: the tree under dir
Archive(dir) == <<"zip", dir>>

\* api_service.py:361-363: task_manager.get and the 404 for an unknown job
DownloadBegin ==
    /\ hPc = "idle"
    /\ \E task_id \in TaskIds \cup {UnknownId} :
         /\ hTask' = task_id
         /\ hPc' = IF Get(task_id) = Absent THEN "dl_404" ELSE "dl_dir"
    /\ UNCHANGED <<tasks, taskOrder, lock, dirs, jobVars, view, returned, listed, held,
                   hFile, storeVars>>

\* variant: only the directory of a job that has ended is archived
DownloadArchive_EndedOnly ==
    /\ hPc = "dl_dir"
    /\ LET task_dir == tasks[hTask].dir
       IN  IF task_dir \in dirs /\ tasks[hTask].status \in {SUCCESS, FAILED}
           THEN /\ disk' = WriteFile(disk, ArchivePath(task_dir), Archive(task_dir))
                /\ hPc' = "dl_200"
           ELSE /\ hPc' = "dl_404"
                /\ disk' = disk
    /\ UNCHANGED <<tasks, taskOrder, lock, dirs, jobVars, hTask, view, returned, listed,
                   held, hFile, idToMeta, fileOrder, sdirs, uPc, uArg, saved>>

\* api_service.py:364-370: the 404 for a missing directory, else
\* make_archive.  The test and make_archive are one step: nothing of the
\* service removes a directory between them.
DownloadArchive ==
    /\ hPc = "dl_dir"
    /\ LET task_dir == tasks[hTask].dir
       IN  IF task_dir \in dirs
           THEN /\ disk' = WriteFile(disk, ArchivePath(task_dir), Archive(task_dir))
                /\ hPc' = "dl_200"
           ELSE /\ hPc' = "dl_404"
                /\ disk' = disk
    /\ UNCHANGED <<tasks, taskOrder, lock, dirs, jobVars, hTask, view, returned, listed,
                   held, hFile, idToMeta, fileOrder, sdirs, uPc, uArg, saved>>

\* api_service.py:363, 365 or 371: the response is sent
DownloadRespond ==
    /\ hPc \in {"dl_404", "dl_200"}
    /\ hPc' = "idle"
    /\ hTask' = 0
    /\ UNCHANGED <<tasks, taskOrder, lock, dirs, jobVars, view, returned, listed, held,
                   hFile, storeVars>>

\* the directory of a job in the map is deleted by something else than
\* the service, the case task_dir.exists() (api_service.py:364) looks for
RemoveTaskDir ==
    /\ \E t \in DOMAIN tasks :
         /\ tasks[t].dir \in dirs
         /\ dirs' = dirs \ {tasks[t].dir}
    /\ UNCHANGED <<tasks, taskOrder, lock, jobVars, reqVars, held, storeVars>>

\* create_task stands for a create_parse_task whose file resolves
\* (ServiceSpec); the file store plays no part in a download
DownloadNext ==
    \/ CreateTaskStep
    \/ \E t \in TaskIds : ParseJobStep(t)
    \/ DownloadBegin
    \/ DownloadArchive
    \/ DownloadRespond
    \/ RemoveTaskDir

DownloadSpec == Init /\ [][DownloadNext]_vars

\* ------------------------------------------------------------------------
\* Properties
\* ------------------------------------------------------------------------

Terminal == {SUCCESS, FAILED}

\* one step of the state machine Pending -> Running -> {Succeeded, Failed}
StatusStep(a, b) ==
    \/ a = b
    \/ a = PENDING /\ b = RUNNING
    \/ a = RUNNING /\ b \in Terminal

\* C1: the status of a job only ever moves along Pending, Running, then one
\* of Succeeded or Failed: a new record is Pending, no step skips Running,
\* none goes back, and a terminal status is never left.
C1_StatusOrder ==
    [][ /\ \A t \in DOMAIN tasks :
              /\ t \in DOMAIN tasks'
              /\ StatusStep(tasks[t].status, tasks'[t].status)
        /\ \A t \in DOMAIN tasks' \ DOMAIN tasks : tasks'[t].status = PENDING ]_vars

\* a job whose record has held all of Pending, Running and Succeeded
C1_Witness ==
    \E t \in DOMAIN tasks :
        /\ tasks[t].status = SUCCESS
        /\ {h.status : h \in held[t]} = {PENDING, RUNNING, SUCCESS}

\* the fields get_task read are those of one value the record has held
ViewHeld(v) ==
    \E h \in held[v.id] :
        /\ h.status = v.status
        /\ h.progress = v.progress
        /\ h.error = v.error

\* C2: the status, progress and error that a status query answers with are
\* the fields the record held at one single instant.
C2_NoTornView ==
    (hPc = "gt_done" /\ view.found) => ViewHeld(view)

\* a call of TaskManager.get or TaskManager.list by the request thread
ReadCall ==
    hPc = "idle" /\ hPc' \in {"gt_status", "gt_done", "ls_done"}

\* C3: every step that changes the record map is taken by the thread that
\* holds the lock, and so is every get and list.
C3_AllUnderLock ==
    [][ /\ tasks' # tasks =>
              \/ hPc' # hPc /\ lock = RequestThread
              \/ \E t \in TaskIds : pc'[t] # pc[t] /\ lock = t
        /\ ReadCall => lock = RequestThread ]_vars

\* C4: once create_task has returned a record, get of its id is never
\* absent and yields that record with a status of the sequence.
C4_GetAfterCreate ==
    \A task_id \in returned :
        /\ Get(task_id) # Absent
        /\ tasks[Get(task_id)].id = task_id
        /\ tasks[Get(task_id)].status \in TaskStatus

\* create_task has returned and the job thread has not run yet
C4_Witness ==
    \E task_id \in returned :
        /\ Get(task_id) # Absent
        /\ tasks[Get(task_id)].status = PENDING
        /\ pc[task_id] = "run_acq"

\* the job body of t raised, and _run is past its handling of it
Faulted(t) ==
    \/ pc[t] = "fin_rel" /\ result[t].kind = "raise"
    \/ pc[t] = "dead"

\* C5: a job whose body raised is Failed with a non-empty error, and the
\* request thread can still take its next step.
C5_FaultGivesError ==
    \A t \in TaskIds :
        Faulted(t) =>
            /\ t \in DOMAIN tasks
            /\ tasks[t].status = FAILED
            /\ tasks[t].error \notin {None, ""}
            /\ ENABLED RequestStep

\* C6: when the thread of a job has ended, whatever its body returned or
\* raised, the job is Succeeded or Failed.
C6_NoStuckRunning ==
    \A t \in TaskIds :
        pc[t] \in {"done", "dead"} => (t \in DOMAIN tasks /\ tasks[t].status \in Terminal)

\* the job body of t returned {ok: true, artifacts: A}
ReturnedSuccess(t, A) ==
    /\ pc[t] = "fin_acq"
    /\ result[t].kind = "dict"
    /\ result[t].ok
    /\ "artifacts" \in result[t].keys
    /\ result[t].artifacts = A

\* C7: a job whose body returned {ok: true, artifacts: A} eventually is
\* Succeeded with progress 100, no error and artifacts A.
C7_SuccessOutcome ==
    \A t \in TaskIds : \A A \in {Artifacts1} :
        ReturnedSuccess(t, A) ~>
            /\ t \in DOMAIN tasks
            /\ tasks[t].status = SUCCESS
            /\ tasks[t].progress = FinalProgress
            /\ tasks[t].error = None
            /\ tasks[t].artifacts = A

\* a finished job that carries the artifacts its body returned
C7_Witness ==
    \E t \in DOMAIN tasks :
        /\ pc[t] = "done"
        /\ tasks[t].status = SUCCESS
        /\ tasks[t].progress = FinalProgress
        /\ tasks[t].artifacts = Artifacts1

\* the job body of t returned {ok: false, error: E}
ReturnedFailure(t, E) ==
    /\ pc[t] = "fin_acq"
    /\ result[t].kind = "dict"
    /\ ~result[t].ok
    /\ "error" \in result[t].keys
    /\ result[t].error = E

\* C8: a job whose body returned {ok: false, error: E} eventually is Failed
\* with progress 100, error E and empty artifacts.
C8_FailureOutcome ==
    \A t \in TaskIds : \A E \in {"boom"} :
        ReturnedFailure(t, E) ~>
            /\ t \in DOMAIN tasks
            /\ tasks[t].status = FAILED
            /\ tasks[t].progress = FinalProgress
            /\ tasks[t].error = E
            /\ tasks[t].artifacts = EmptyMap

\* a finished job that carries the error its body returned
C8_Witness ==
    \E t \in DOMAIN tasks :
        /\ pc[t] = "done"
        /\ tasks[t].status = FAILED
        /\ tasks[t].error = "boom"
        /\ tasks[t].artifacts = EmptyMap

\* C9: a record has an error only when it is Failed and artifacts only when
\* it is Succeeded, so never both.
C9_ErrorXorArtifacts ==
    \A t \in DOMAIN tasks :
        /\ tasks[t].error # None => tasks[t].status = FAILED
        /\ tasks[t].artifacts # EmptyMap => tasks[t].status = SUCCESS
        /\ ~(tasks[t].error # None /\ tasks[t].artifacts # EmptyMap)

\* one job failed with an error while another succeeded with artifacts
C9_Witness ==
    \E t, u \in DOMAIN tasks :
        /\ tasks[t].status = FAILED /\ tasks[t].error # None
        /\ tasks[u].status = SUCCESS /\ tasks[u].artifacts # EmptyMap

\* the job body of t has been called
BodyCalled(t) == pc[t] \in {"body", "fin_acq", "fin_wr", "fin_rel", "done", "dead"}

\* C10: a job body is called once and never again, and a Failed job stays
\* Failed without its body being called again.
C10_ExactlyOnce ==
    /\ [](\A t \in TaskIds : invoked[t] = (IF BodyCalled(t) THEN 1 ELSE 0))
    /\ [][\A t \in DOMAIN tasks :
             tasks[t].status = FAILED =>
                 /\ tasks'[t].status = FAILED
                 /\ invoked'[t] = invoked[t]]_vars

\* a job that failed after its body raised, with the one call of the body
C10_Witness ==
    \E t \in DOMAIN tasks :
        /\ pc[t] = "done"
        /\ tasks[t].status = FAILED
        /\ tasks[t].error = ""
        /\ invoked[t] = 1

\* C11: no job thread holds the lock while its body executes, and while a
\* body executes the request thread can take the next step of the handler
\* it is in, or start get, list and (while identifiers remain) create_task.
C11_NonBlocking ==
    /\ \A t \in TaskIds : pc[t] = "body" => lock # t
    /\ (\E t \in TaskIds : pc[t] = "body") =>
          /\ hPc # "idle" => ENABLED RequestStep
          /\ hPc = "idle" =>
                /\ ENABLED GetTaskBegin
                /\ ENABLED ListTasksBegin
                /\ FreshIds # {} => ENABLED CreateTaskBegin

\* create_task has returned a second job while the body of a first runs
C11_Witness ==
    \E t, u \in TaskIds :
        /\ t # u
        /\ pc[t] = "body"
        /\ u \in returned
        /\ pc[u] = "run_acq"
        /\ hPc = "idle"

\* C12: progress is an integer of 0..100 that never decreases: 0 while
\* Pending, the checkpoint value while Running, 100 in a terminal status.
C12_Progress ==
    /\ [](\A t \in DOMAIN tasks :
             /\ tasks[t].progress \in 0..100
             /\ tasks[t].status = PENDING => tasks[t].progress = 0
             /\ tasks[t].status = RUNNING => tasks[t].progress = RunningProgress
             /\ tasks[t].status \in Terminal => tasks[t].progress = 100)
    /\ [][\A t \in DOMAIN tasks : tasks'[t].progress >= tasks[t].progress]_vars

\* a failed job whose progress went through 0, the checkpoint and 100
C12_Witness ==
    \E t \in DOMAIN tasks :
        /\ tasks[t].status = FAILED
        /\ {h.progress : h \in held[t]} = {0, RunningProgress, 100}

\* C13: the directory of a job exists when its body is called, and no step
\* changes the id or the dir of a record.
C13_DirFixed ==
    /\ [](\A t \in DOMAIN tasks : tasks[t].id = t /\ tasks[t].dir = TaskDir(t))
    /\ [][ /\ \A t \in DOMAIN tasks :
                /\ tasks'[t].id = tasks[t].id
                /\ tasks'[t].dir = tasks[t].dir
           /\ \A t \in TaskIds :
                invoked'[t] > invoked[t] =>
                    /\ t \in DOMAIN tasks
                    /\ tasks[t].dir \in dirs ]_vars

\* a job that has gone through all its transitions in its directory
C13_Witness ==
    \E t \in DOMAIN tasks :
        /\ pc[t] = "done"
        /\ invoked[t] = 1
        /\ tasks[t].dir = TaskDir(t)
        /\ TaskDir(t) \in dirs

\* C14: a save_upload call with empty content creates nothing: no entry of
\* the index and no file is empty, and the call has made no directory.
C14_EmptyRejected ==
    /\ \A id \in DOMAIN idToMeta : idToMeta[id].size # 0
    /\ \A f \in disk : f[2] # <<>>
    /\ \A c \in FileIds :
          (uPc[c] # "idle" /\ uArg[c].content = <<>>) =>
              StorageDir(uArg[c].id) \notin sdirs

\* the file id has an entry in the index whose file is on disk
Resolves(file_id) ==
    /\ file_id \in DOMAIN idToMeta
    /\ \E f \in disk : f[1] = idToMeta[file_id].stored_path

\* C15: every lookup of an identifier that was never issued, or of a file
\* identifier whose file is no longer on disk, answers absent.
C15_AbsentLookups ==
    /\ \A file_id \in FileIds :
          ~Resolves(file_id) =>
              /\ GetFileMeta(file_id) = Absent
              /\ GetFilePath(file_id) = NoPath
    /\ \A task_id \in TaskIds :
          TaskDir(task_id) \notin dirs => Get(task_id) = Absent

\* the call of caller c has returned the meta of non-empty content
SavedNonEmpty(c) == uPc[c] = "done" /\ uArg[c].content # <<>>

\* the files on disk d in the directory of file_id
FilesOf(d, file_id) == {f \in d : f[1][2] = file_id}

\* C16: after a save_upload call of non-empty content has returned, the
\* lookup of its id finds an entry with the size of the content and a path
\* whose file holds the content (unless the file was deleted out-of-band);
\* no save_upload step removes or rewrites a file or an entry.
C16_SaveThenGet ==
    /\ [](\A c \in FileIds :
             SavedNonEmpty(c) =>
                 /\ GetFileMeta(uArg[c].id) # Absent
                 /\ idToMeta[GetFileMeta(uArg[c].id)].size = Len(uArg[c].content)
                 /\ GetFilePath(uArg[c].id) # NoPath =>
                       ReadFile(GetFilePath(uArg[c].id)) = uArg[c].content
                 /\ GetFilePath(uArg[c].id) = NoPath =>
                       FilesOf(disk, uArg[c].id) = {})
    /\ [][\A c \in FileIds :
             uPc'[c] # uPc[c] =>
                 /\ disk \subseteq disk'
                 /\ \A id \in DOMAIN idToMeta :
                       id \in DOMAIN idToMeta' /\ idToMeta'[id] = idToMeta[id]]_vars

\* two stored files of the same name with different contents, both intact
C16_Witness ==
    \E c, d \in FileIds :
        /\ SavedNonEmpty(c) /\ SavedNonEmpty(d)
        /\ uArg[c].filename = uArg[d].filename
        /\ uArg[c].content # uArg[d].content
        /\ GetFilePath(uArg[c].id) # NoPath
        /\ GetFilePath(uArg[d].id) # NoPath
        /\ ReadFile(GetFilePath(uArg[c].id)) = uArg[c].content
        /\ ReadFile(GetFilePath(uArg[d].id)) = uArg[d].content

\* C18: whatever the interleaving of the save_upload calls, the index has
\* one entry per returned call, each with the id, the name and the size of
\* its own call, and as many entries as calls have returned.
C18_ConcurrentSaves ==
    LET done == {c \in FileIds : uPc[c] = "done"}
    IN  /\ \A c \in done :
              /\ uArg[c].id \in DOMAIN idToMeta
              /\ idToMeta[uArg[c].id].id = uArg[c].id
              /\ idToMeta[uArg[c].id].filename = uArg[c].filename
              /\ idToMeta[uArg[c].id].size = Len(uArg[c].content)
        /\ \A c, d \in done : c # d => uArg[c].id # uArg[d].id
        /\ Cardinality(DOMAIN idToMeta) = Cardinality(done)
        /\ Len(fileOrder) = Cardinality(done)

\* every caller has returned from a call with non-empty content
C18_Witness ==
    /\ \A c \in FileIds : SavedNonEmpty(c)
    /\ Cardinality(DOMAIN idToMeta) = MaxUploads

\* C17: any two save_upload calls returned distinct ids, paths and
\* directories, and any two jobs have distinct ids and directories.
C17_NothingShared ==
    /\ \A i, j \in 1..Len(saved) :
          i # j =>
              /\ saved[i].id # saved[j].id
              /\ saved[i].stored_path # saved[j].stored_path
              /\ saved[i].dir # saved[j].dir
    /\ \A t, u \in DOMAIN tasks :
          t # u =>
              /\ tasks[t].id # tasks[u].id
              /\ tasks[t].dir # tasks[u].dir
    /\ Cardinality(sdirs) = Len(saved)

\* two uploads of the same name, and two jobs
C17_Witness ==
    /\ Len(saved) = 2
    /\ saved[1].filename = saved[2].filename
    /\ Cardinality(DOMAIN tasks) = 2

\* C19: a create_parse_task call for a file id that has no entry, or whose
\* file is not on disk, answers 404 and leaves the job map, the output
\* directories and the job threads as they are.
C19_UnknownFile ==
    [][(hPc = "idle" /\ hFile' # 0 /\ ~Resolves(hFile')) =>
           /\ hPc' = "cp_404"
           /\ tasks' = tasks
           /\ taskOrder' = taskOrder
           /\ dirs' = dirs
           /\ pc' = pc]_vars

\* a 404 for a file that was stored and then deleted, while a job runs
C19_Witness ==
    /\ hPc = "cp_404"
    /\ hFile \in DOMAIN idToMeta
    /\ \E t \in TaskIds : pc[t] = "body"

\* a is an initial part of b
IsPrefix(a, b) == Len(a) <= Len(b) /\ SubSeq(b, 1, Len(a)) = a

\* C20: list_files answers the metas save_upload returned, in that order,
\* list answers the jobs create_task has inserted, each once, and both
\* lists only grow at their end.
C20_ListsGrow ==
    /\ [](/\ ListFiles = saved
          /\ {List[i] : i \in 1..Len(List)} = DOMAIN tasks
          /\ Len(List) = Cardinality(DOMAIN tasks)
          /\ returned \subseteq DOMAIN tasks)
    /\ [][IsPrefix(ListFiles, ListFiles') /\ IsPrefix(List, List')]_vars

\* both lists have two entries, one of a file that is no longer on disk
C20_Witness ==
    /\ Len(ListFiles) = 2
    /\ Len(List) = 2
    /\ \E i \in 1..Len(ListFiles) : ~Exists(ListFiles[i].stored_path)

\* job thread t is at the dict.update of one of its two _update calls and
\* takes that step
UpdateBy(t) == pc[t] \in {"run_wr", "fin_wr"} /\ pc'[t] # pc[t]

\* C21: jobs do not interfere: an update made for job t leaves the keys of
\* the map and every other record as they are, a record changes only by
\* an update of its own job, and an update addressed to an id that is not
\* in the map changes nothing.
C21_NoInterference ==
    [][ /\ \A t \in TaskIds : UpdateBy(t) =>
             /\ DOMAIN tasks' = DOMAIN tasks
             /\ \A u \in DOMAIN tasks : u # t => tasks'[u] = tasks[u]
        /\ \A u \in DOMAIN tasks \cap DOMAIN tasks' :
             tasks'[u] # tasks[u] => UpdateBy(u)
        /\ (hPc = "idle" /\ hPc' = "up_done") =>
             /\ hTask' \notin DOMAIN tasks
             /\ tasks' = tasks /\ taskOrder' = taskOrder ]_vars

\* an update for an unknown id has just been made while job 1 has ended
\* and job 2 has not yet written anything
C21_Witness ==
    /\ hPc = "up_done"
    /\ DOMAIN tasks = {1, 2}
    /\ tasks[1].status \in Terminal
    /\ tasks[2].status = PENDING

\* a step of download_task_result
DownloadStep ==
    /\ hPc' # hPc
    /\ \/ hPc = "idle" /\ hPc' \in {"dl_404", "dl_dir"}
       \/ hPc \in {"dl_dir", "dl_404", "dl_200"}

\* C22: the download answers 404 for an unknown job and for a job whose
\* directory is missing; otherwise it writes the archive of the directory
\* and answers it, whatever the status of the job; no step of the request
\* changes a job record or the map; and a step that removes a task
\* directory is a step of nothing in the service.
C22_Download ==
    [][ /\ (hPc = "idle" /\ hPc' \in {"dl_404", "dl_dir"}) =>
             (hPc' = "dl_404" <=> hTask' \notin DOMAIN tasks)
        /\ (hPc = "dl_dir" /\ hPc' # hPc) =>
             /\ hTask \in DOMAIN tasks
             /\ IF tasks[hTask].dir \in dirs
                THEN /\ hPc' = "dl_200"
                     /\ <<ArchivePath(tasks[hTask].dir), Archive(tasks[hTask].dir)>> \in disk'
                ELSE hPc' = "dl_404" /\ disk' = disk
        /\ DownloadStep =>
             /\ tasks' = tasks /\ taskOrder' = taskOrder /\ held' = held
             /\ pc' = pc /\ lock' = lock /\ dirs' = dirs
        /\ ~(dirs \subseteq dirs') =>
             /\ tasks' = tasks /\ taskOrder' = taskOrder /\ pc' = pc /\ lock' = lock
             /\ hPc' = hPc /\ disk' = disk ]_vars

\* the directory of a job that is still pending has been archived and is
\* still there, and the directory of another job is missing
C22_Witness ==
    /\ hPc = "dl_200"
    /\ tasks[hTask].status = PENDING
    /\ tasks[hTask].dir \in dirs
    /\ Exists(ArchivePath(tasks[hTask].dir))
    /\ \E u \in DOMAIN tasks : u # hTask /\ tasks[u].dir \notin dirs

====
